---- MODULE Spec2Model ----
(***************************************************************************)
(* singbox-manager: the persisted ManagerState, its compilation into the   *)
(* sing-box native configuration, the UserManager (CLI) operations and the *)
(* HTTP control surface (server.ts) over one shared state file.            *)
(***************************************************************************)
EXTENDS Integers, Sequences, FiniteSets, TLC

VARIABLES
    mgr,         \* UserManager.state, the in-memory ManagerState of the CLI manager
    http,        \* server.ts `state`, or NotLoaded before main() has run
    stateFile,   \* content of the state file (JSON document), or NoFile
    configFile,  \* content of the compiled sing-box config file, or NoFile
    now,         \* the wall clock read by new Date()
    draws,       \* how many times generateUUID has been called
    faults,      \* how many file writes have failed
    last,        \* the last operation: its name, argument, outcome and I/O effects
    reqs,        \* the requests handleRequest is suspended in, each at one of its awaits
    sup          \* server.ts `singboxProcess` and the proxy processes, timers and resets around it

vars == <<mgr, http, stateFile, configFile, now, draws, faults, last, reqs, sup>>

----------------------------------------------------------------------------
(* Bounds of the model *)

MaxUsers == 2     \* longest roster explored
MaxRand == 2      \* generateUUID is called at most MaxRand times
MaxFaults == 1    \* at most MaxFaults file writes fail
MaxInflight == 2  \* at most MaxInflight requests are in flight at once
MaxNow == 3       \* the clock stops at MaxNow
MaxResets == 2    \* POST /api/reset requests explored with the proxy processes

----------------------------------------------------------------------------
(* Values *)

Undefined == [undefined |-> TRUE]
NoFile == [nofile |-> TRUE]
NotLoaded == [notloaded |-> TRUE]

DateOf(t) == [date |-> t]        \* a JavaScript Date
IsoOf(t) == [iso |-> t]          \* its ISO-8601 string, as JSON.stringify writes it

Names == {"alice", "bob"}
\* the (host, port) arguments of initialize
InitArgs == {<<"203.0.113.5", 443>>, <<"198.51.100.7", 8443>>}

\* the --host and --port options of the init command
CliInitArgs == {<<"203.0.113.5", 443>>}

\* whether the state-file write and the config-file write of one operation succeed;
\* after a failed state-file write the config file is not written
IOOutcomes == {<<TRUE, TRUE>>, <<FALSE, TRUE>>, <<TRUE, FALSE>>}

\* the random draws of one server-identity generation: whether the sing-box binary
\* is found, the private key drawn, the public key the fallback draws, the short-id bytes
KeyDraws ==
    { [viaBinary |-> TRUE, priv |-> "sk1", pub |-> "pk2", seed |-> 1],
      [viaBinary |-> FALSE, priv |-> "sk2", pub |-> "pk1", seed |-> 5] }

DEFAULT_REALITY_TARGETS == <<"www.google.com", "www.microsoft.com", "www.apple.com", "www.amazon.com">>

ENV_SERVER_HOST == "0.0.0.0"
ENV_SERVER_PORT == 443

----------------------------------------------------------------------------
(* utils/crypto *)

Hex == <<"0", "1", "2", "3", "4", "5", "6", "7", "8", "9", "a", "b", "c", "d", "e", "f">>

HexByte(b) == Hex[(b \div 16) + 1] \o Hex[(b % 16) + 1]

RECURSIVE HexOf(_, _, _)
HexOf(bytes, from, to) ==
    IF from > to THEN "" ELSE HexByte(bytes[from]) \o HexOf(bytes, from + 1, to)

\* randomBytes(n) for the draw r: n bytes, all equal to r
randomBytes(n, r) == [i \in 1..n |-> r % 256]

\* a generator that ignores its random bytes
nilUUID(bytes) == "00000000-0000-4000-8000-000000000000"

\* bytes[6] = (bytes[6] & 0x0f) | 0x40; bytes[8] = (bytes[8] & 0x3f) | 0x80 (0-based)
generateUUID(bytes) ==
    LET masked == [bytes EXCEPT ![7] = (bytes[7] % 16) + 64,
                                ![9] = (bytes[9] % 64) + 128]
    IN  HexOf(masked, 1, 4) \o "-" \o HexOf(masked, 5, 6) \o "-" \o HexOf(masked, 7, 8)
        \o "-" \o HexOf(masked, 9, 10) \o "-" \o HexOf(masked, 11, 16)

generateShortId(r) == HexOf(randomBytes(4, r), 1, 4)

generateShortIds(count, seed) == [i \in 1..count |-> generateShortId(seed + i - 1)]

\* the public key X25519 derives from a private key (what the sing-box binary prints)
DerivePublic(priv) == IF priv = "sk1" THEN "pk1" ELSE "pk2"

\* the binary's output when it is found; otherwise the fallback, which draws the
\* public key independently of the private key
generateRealityKeyPair(viaBinary, priv, pub) ==
    IF viaBinary
    THEN [privateKey |-> priv, publicKey |-> DerivePublic(priv)]
    ELSE [privateKey |-> priv, publicKey |-> pub]

----------------------------------------------------------------------------
(* core/config-generator *)

generateRealityConfig(d) ==
    LET kp == generateRealityKeyPair(d.viaBinary, d.priv, d.pub)
        target == DEFAULT_REALITY_TARGETS[1]
    IN  [dest |-> target,
         serverNames |-> <<target>>,
         privateKey |-> kp.privateKey,
         publicKey |-> kp.publicKey,
         shortIds |-> generateShortIds(4, d.seed)]

\* generateRealityConfig() on each draw of the key material
RealityConfigs == [d \in KeyDraws |-> generateRealityConfig(d)]

\* a default server config that listens on 443 whatever port is asked for
generateDefaultServerConfigOn443(host, port, d) ==
    [host |-> host,
     inbounds |-> << [tag |-> "vless-reality",
                      protocol |-> "vless",
                      listen |-> "0.0.0.0",
                      port |-> 443,
                      tlsType |-> "reality",
                      reality |-> RealityConfigs[d]] >>,
     dns |-> [servers |-> <<"8.8.8.8", "1.1.1.1">>, useSystemDns |-> FALSE],
     logLevel |-> "info"]

generateDefaultServerConfig(host, port, d) ==
    [host |-> host,
     inbounds |-> << [tag |-> "vless-reality",
                      protocol |-> "vless",
                      listen |-> "0.0.0.0",
                      port |-> port,
                      tlsType |-> "reality",
                      reality |-> RealityConfigs[d]] >>,
     dns |-> [servers |-> <<"8.8.8.8", "1.1.1.1">>, useSystemDns |-> FALSE],
     logLevel |-> "info"]

\* a filter that also drops the users whose expiresAt has passed
RECURSIVE FilterUnexpired(_)
FilterUnexpired(users) ==
    IF users = <<>> THEN <<>>
    ELSE IF Head(users).enabled /\ Head(users).expiresAt = Undefined
         THEN <<Head(users)>> \o FilterUnexpired(Tail(users))
         ELSE FilterUnexpired(Tail(users))

\* users.filter((u) => u.enabled)
RECURSIVE FilterEnabled(_)
FilterEnabled(users) ==
    IF users = <<>> THEN <<>>
    ELSE IF Head(users).enabled
         THEN <<Head(users)>> \o FilterEnabled(Tail(users))
         ELSE FilterEnabled(Tail(users))

NativeUser(u) == [uuid |-> u.id, name |-> u.name, flow |-> "xtls-rprx-vision"]

NativeInbound(inbound, users) ==
    LET live == FilterEnabled(users)
        base == [type |-> inbound.protocol,
                 tag |-> inbound.tag,
                 listen |-> inbound.listen,
                 listen_port |-> inbound.port,
                 users |-> [i \in 1..Len(live) |-> NativeUser(live[i])]]
    IN  IF inbound.tlsType = "reality" /\ inbound.reality # Undefined
        THEN base @@
             [tls |-> [enabled |-> TRUE,
                       server_name |-> inbound.reality.serverNames[1],
                       reality |-> [enabled |-> TRUE,
                                    handshake |-> [server |-> inbound.reality.dest,
                                                   server_port |-> 443],
                                    private_key |-> inbound.reality.privateKey,
                                    short_id |-> inbound.reality.shortIds]]]
        ELSE base

toSingboxConfig(serverConfig, users) ==
    [log |-> [level |-> serverConfig.logLevel, timestamp |-> TRUE],
     dns |-> [servers |->
                IF serverConfig.dns = Undefined THEN Undefined
                ELSE [i \in 1..Len(serverConfig.dns.servers) |->
                        [tag |-> "dns-" \o ToString(i - 1),
                         address |-> serverConfig.dns.servers[i]]]],
     inbounds |-> [i \in 1..Len(serverConfig.inbounds) |->
                     NativeInbound(serverConfig.inbounds[i], users)],
     outbounds |-> << [type |-> "direct", tag |-> "direct"],
                      [type |-> "block", tag |-> "block"] >>]

\* encodeURIComponent on the names of the model: letters and digits are kept
encodeURIComponent(s) == IF s = "my phone" THEN "my%20phone" ELSE s

\* URLSearchParams.toString(): key=value pairs joined by &, in insertion order
RECURSIVE JoinParams(_)
JoinParams(ps) ==
    IF ps = <<>> THEN ""
    ELSE ps[1][1] \o "=" \o ps[1][2]
         \o (IF Len(ps) > 1 THEN "&" ELSE "") \o JoinParams(Tail(ps))

\* the Error generateVlessUri throws, as a value no URI equals
UnsupportedUri == "Error: Only VLESS+Reality is supported"

\* a generator that looks at the protocol alone and accepts any TLS type
generateVlessUriAnyTls(user, serverConfig, inbound) ==
    IF inbound.protocol # "vless"
    THEN UnsupportedUri
    ELSE LET reality == IF inbound.reality = Undefined
                        THEN [publicKey |-> "", serverNames |-> <<"">>, shortIds |-> <<"">>]
                        ELSE inbound.reality
         IN  "vless://" \o user.id \o "@" \o serverConfig.host \o ":"
             \o ToString(inbound.port) \o "?type=tcp&security=reality&pbk="
             \o reality.publicKey \o "&fp=chrome&sni=" \o reality.serverNames[1]
             \o "&sid=" \o reality.shortIds[1] \o "&flow=xtls-rprx-vision#"
             \o encodeURIComponent(user.name)

\* a generator that takes the host from the manager's state once it has one
generateVlessUriOfManager(user, serverConfig, inbound) ==
    IF inbound.protocol # "vless" \/ inbound.tlsType # "reality"
    THEN UnsupportedUri
    ELSE "vless://" \o user.id \o "@"
         \o (IF mgr.server.inbounds # <<>> THEN mgr.server.host ELSE serverConfig.host)
         \o ":" \o ToString(inbound.port) \o "?type=tcp&security=reality&pbk="
         \o inbound.reality.publicKey \o "&fp=chrome&sni=" \o inbound.reality.serverNames[1]
         \o "&sid=" \o inbound.reality.shortIds[1] \o "&flow=xtls-rprx-vision#"
         \o encodeURIComponent(user.name)

generateVlessUri(user, serverConfig, inbound) ==
    IF inbound.protocol # "vless" \/ inbound.tlsType # "reality"
    THEN UnsupportedUri
    ELSE LET reality == inbound.reality
             params == << <<"type", "tcp">>,
                          <<"security", "reality">>,
                          <<"pbk", reality.publicKey>>,
                          <<"fp", "chrome">>,
                          <<"sni", reality.serverNames[1]>>,
                          <<"sid", reality.shortIds[1]>>,
                          <<"flow", "xtls-rprx-vision">> >>
         IN  "vless://" \o user.id \o "@" \o serverConfig.host \o ":"
             \o ToString(inbound.port) \o "?" \o JoinParams(params)
             \o "#" \o encodeURIComponent(user.name)

\* a descriptor generator whose manual map takes the last short id, not the first
generateClientConfigLastShortId(user, serverConfig) ==
    [i \in 1..Len(serverConfig.inbounds) |->
        LET inbound == serverConfig.inbounds[i]
            reality == IF inbound.reality = Undefined
                       THEN [publicKey |-> "", serverNames |-> <<"">>, shortIds |-> <<"">>]
                       ELSE inbound.reality
        IN  [userId |-> user.id,
             protocol |-> inbound.protocol,
             uri |-> generateVlessUri(user, serverConfig, inbound),
             manual |-> [address |-> serverConfig.host,
                         port |-> inbound.port,
                         uuid |-> user.id,
                         flow |-> "xtls-rprx-vision",
                         security |-> "reality",
                         sni |-> reality.serverNames[1],
                         fingerprint |-> "chrome",
                         publicKey |-> reality.publicKey,
                         shortId |-> reality.shortIds[Len(reality.shortIds)]]]]

generateClientConfig(user, serverConfig) ==
    [i \in 1..Len(serverConfig.inbounds) |->
        LET inbound == serverConfig.inbounds[i]
        IN  [userId |-> user.id,
             protocol |-> inbound.protocol,
             uri |-> generateVlessUri(user, serverConfig, inbound),
             manual |-> [address |-> serverConfig.host,
                         port |-> inbound.port,
                         uuid |-> user.id,
                         flow |-> "xtls-rprx-vision",
                         security |-> "reality",
                         sni |-> IF inbound.reality = Undefined THEN ""
                                 ELSE inbound.reality.serverNames[1],
                         fingerprint |-> "chrome",
                         publicKey |-> IF inbound.reality = Undefined THEN ""
                                       ELSE inbound.reality.publicKey,
                         shortId |-> IF inbound.reality = Undefined THEN ""
                                     ELSE inbound.reality.shortIds[1]]]]

----------------------------------------------------------------------------
(* ManagerState, and its JSON form in the state file *)

\* the state the UserManager constructor builds
ConstructorState ==
    [version |-> 1,
     server |-> [host |-> "", inbounds |-> <<>>, dns |-> Undefined, logLevel |-> "info"],
     users |-> <<>>,
     clientConfigs |-> <<>>]

\* Date.prototype.toJSON: a Date becomes its ISO string; a string stays; undefined is dropped
DateToJSON(d) ==
    IF d = Undefined THEN Undefined
    ELSE IF "date" \in DOMAIN d THEN IsoOf(d.date) ELSE d

\* a load that stamps the user with the time of the load
NewDateNow(v) == DateOf(now)

\* new Date(isoString)
NewDate(v) == IF "iso" \in DOMAIN v THEN DateOf(v.iso) ELSE v

\* JSON.stringify(state, null, 2)
JSONStringify(st) ==
    [st EXCEPT !.users = [i \in 1..Len(st.users) |->
        [st.users[i] EXCEPT !.createdAt = DateToJSON(@), !.expiresAt = DateToJSON(@)]]]

\* UserManager.loadState: JSON.parse, then the date strings back to Date objects
ManagerParse(doc) ==
    [doc EXCEPT !.users = [i \in 1..Len(doc.users) |->
        [doc.users[i] EXCEPT !.createdAt = NewDate(@),
                             !.expiresAt = IF @ # Undefined THEN NewDate(@) ELSE Undefined]]]

\* a duplicate check that looks at the enabled users only
NameTakenAmongEnabled(users, name) ==
    \E i \in 1..Len(users) : users[i].name = name /\ users[i].enabled

\* users.some((u) => u.name === name)
NameTaken(users, name) == \E i \in 1..Len(users) : users[i].name = name

Matches(u, nameOrId) == u.name = nameOrId \/ u.id = nameOrId

\* a lookup that settles for the first user when nothing matches
FirstIndex(users, nameOrId) ==
    IF users = <<>> THEN 0
    ELSE IF \E i \in 1..Len(users) : Matches(users[i], nameOrId)
         THEN CHOOSE i \in 1..Len(users) :
                 /\ Matches(users[i], nameOrId)
                 /\ \A j \in 1..(i - 1) : ~Matches(users[j], nameOrId)
         ELSE 1

\* a lookup that takes the last user that matches
LastIndex(users, nameOrId) ==
    IF \E i \in 1..Len(users) : Matches(users[i], nameOrId)
    THEN CHOOSE i \in 1..Len(users) :
            /\ Matches(users[i], nameOrId)
            /\ \A j \in (i + 1)..Len(users) : ~Matches(users[j], nameOrId)
    ELSE 0

\* findIndex: the first index whose user matches, 0 when none does (-1 in the code)
FindIndex(users, nameOrId) ==
    IF \E i \in 1..Len(users) : Matches(users[i], nameOrId)
    THEN CHOOSE i \in 1..Len(users) :
            /\ Matches(users[i], nameOrId)
            /\ \A j \in 1..(i - 1) : ~Matches(users[j], nameOrId)
    ELSE 0

\* a removal that enables the users it leaves
SpliceEnabling(users, index) ==
    [i \in 1..(Len(users) - 1) |->
        [(IF i < index THEN users[i] ELSE users[i + 1]) EXCEPT !.enabled = TRUE]]

\* users.splice(index, 1)
Splice(users, index) ==
    [i \in 1..(Len(users) - 1) |-> IF i < index THEN users[i] ELSE users[i + 1]]

\* a removal that leaves the descriptor cache as it is
KeepConfigs(configs, id) == configs

\* clientConfigs.filter((c) => c.userId !== id)
RECURSIVE PruneConfigs(_, _)
PruneConfigs(configs, id) ==
    IF configs = <<>> THEN <<>>
    ELSE IF Head(configs).userId # id
         THEN <<Head(configs)>> \o PruneConfigs(Tail(configs), id)
         ELSE PruneConfigs(Tail(configs), id)

NewUser(id, name, expiresAt) ==
    [id |-> id,
     name |-> name,
     email |-> Undefined,
     createdAt |-> DateOf(now),
     expiresAt |-> expiresAt,
     enabled |-> TRUE,
     trafficLimit |-> 0,
     trafficUsed |-> 0]

\* POST /api/users builds the user without email and expiresAt
HttpNewUser(id, name) == NewUser(id, name, Undefined)

----------------------------------------------------------------------------
(* The I/O of one mutating operation *)

\* what `pkill -HUP sing-box` did: nothing when the operation sends no signal,
\* "reload" when it reached the proxy, "reloadFailed" when execSync threw (the
\* catch block swallows it)
Reload(signal) ==
    IF signal = "none" THEN <<>>
    ELSE IF signal = "hup" THEN <<"reload">>
    ELSE <<"reloadFailed">>

\* the signal of updateSingboxConfig, reaching the proxy or not
Signal(hup) == IF hup THEN "hup" ELSE "hupFailed"

\* a state-file failure that does not stop the operation
PersistKeepGoing(st, wOk, cOk, signal) ==
    IF ~wOk
    THEN [file |-> stateFile, config |-> toSingboxConfig(st.server, st.users),
          effects |-> <<"stateWriteFailed", "configWrite">> \o Reload(signal),
          ok |-> FALSE]
    ELSE IF ~cOk
    THEN [file |-> JSONStringify(st), config |-> configFile,
          effects |-> <<"stateWrite", "configWriteFailed">>, ok |-> FALSE]
    ELSE [file |-> JSONStringify(st), config |-> toSingboxConfig(st.server, st.users),
          effects |-> <<"stateWrite", "configWrite">> \o Reload(signal),
          ok |-> TRUE]

\* a failed reload that undoes the two writes and fails the operation
PersistRollback(st, wOk, cOk, signal) ==
    IF ~wOk
    THEN [file |-> stateFile, config |-> configFile,
          effects |-> <<"stateWriteFailed">>, ok |-> FALSE]
    ELSE IF ~cOk
    THEN [file |-> JSONStringify(st), config |-> configFile,
          effects |-> <<"stateWrite", "configWriteFailed">>, ok |-> FALSE]
    ELSE IF signal = "hupFailed"
    THEN [file |-> stateFile, config |-> configFile,
          effects |-> <<"stateWrite", "configWrite", "reloadFailed">>, ok |-> FALSE]
    ELSE [file |-> JSONStringify(st), config |-> toSingboxConfig(st.server, st.users),
          effects |-> <<"stateWrite", "configWrite">> \o Reload(signal),
          ok |-> TRUE]

\* the two writes in the other order: the config file first, then the state file
PersistConfigFirst(st, wOk, cOk, signal) ==
    IF ~cOk
    THEN [file |-> stateFile, config |-> configFile,
          effects |-> <<"configWriteFailed">>, ok |-> FALSE]
    ELSE IF ~wOk
    THEN [file |-> stateFile, config |-> toSingboxConfig(st.server, st.users),
          effects |-> <<"configWrite", "stateWriteFailed">>, ok |-> FALSE]
    ELSE [file |-> JSONStringify(st), config |-> toSingboxConfig(st.server, st.users),
          effects |-> <<"configWrite", "stateWrite">>
                      \o Reload(signal),
          ok |-> TRUE]

\* saveState(); then regenerateConfig() (UserManager) or updateSingboxConfig()
\* (server.ts, which also sends SIGHUP to sing-box after the config is written).
\* A failed write throws: the steps after it are not run.
Persist(st, wOk, cOk, signal) ==
    IF ~wOk
    THEN [file |-> stateFile, config |-> configFile,
          effects |-> <<"stateWriteFailed">>, ok |-> FALSE]
    ELSE IF ~cOk
    THEN [file |-> JSONStringify(st), config |-> configFile,
          effects |-> <<"stateWrite", "configWriteFailed">>, ok |-> FALSE]
    ELSE [file |-> JSONStringify(st), config |-> toSingboxConfig(st.server, st.users),
          effects |-> <<"stateWrite", "configWrite">>
                      \o Reload(signal),
          ok |-> TRUE]

\* the result of one operation on a ManagerState: the state it leaves in memory, the
\* two files, what it returned or threw, its I/O effects in order, what it generated
Step(st, file, config, result, effects, gen) ==
    [state |-> st, file |-> file, config |-> config,
     result |-> result, effects |-> effects, gen |-> gen]

Unchanged(st, result) == Step(st, stateFile, configFile, result, <<>>, Undefined)

Persisted(st, p, prefix, gen) ==
    Step(st, p.file, p.config, IF p.ok THEN "ok" ELSE "PersistenceFailure",
         prefix \o p.effects, gen)

\* what generateRealityKeyPair and generateShortIds returned in this operation
Generated(d) ==
    [keys |-> [privateKey |-> RealityConfigs[d].privateKey,
               publicKey |-> RealityConfigs[d].publicKey],
     shortIds |-> RealityConfigs[d].shortIds]

\* generateUUID() on the n-th draw of randomBytes(16): every draw is fresh
UUIDs == [n \in 1..(MaxRand + 1) |-> generateUUID(randomBytes(16, n))]

UUIDOfDraw(n) == UUIDs[n]

\* the ids generateUUID has returned so far
allocated == { UUIDOfDraw(n) : n \in 1..draws }

NameOrIds == Names \cup allocated

----------------------------------------------------------------------------
(* UserManager: each method as a function of the instance's state *)

\* a manager that never finds the state file
StateMissing == FALSE

\* existsSync(this.statePath)
StateExists == stateFile # NoFile

\* loadState(): readFile throws when the file is missing
loadState(m) ==
    IF stateFile = NoFile
    THEN Unchanged(m, "ENOENT")
    ELSE Step(ManagerParse(stateFile), stateFile, configFile, "ok", <<"stateRead">>, Undefined)

initialize(m, host, port, d, wOk, cOk) ==
    IF StateExists
    THEN loadState(m)
    ELSE LET st == [m EXCEPT !.server = generateDefaultServerConfig(host, port, d)]
         IN  Persisted(st, Persist(st, wOk, cOk, "none"), <<"keygen">>, Generated(d))

addUser(m, name, expiresAt, wOk, cOk) ==
    IF NameTaken(m.users, name)
    THEN Unchanged(m, "DuplicateUser")
    ELSE LET user == NewUser(UUIDOfDraw(draws + 1), name, expiresAt)
             pushed == [m EXCEPT !.users = Append(@, user)]
             configs == generateClientConfig(user, m.server)
             st == [pushed EXCEPT !.clientConfigs = @ \o configs]
         IN  IF \E i \in 1..Len(configs) : configs[i].uri = UnsupportedUri
             THEN Unchanged(pushed, "UnsupportedProtocolCombination")
             ELSE Persisted(st, Persist(st, wOk, cOk, "none"), <<>>,
                            [user |-> user, configs |-> configs])

removeUser(m, nameOrId, wOk, cOk) ==
    LET index == FindIndex(m.users, nameOrId)
    IN  IF index = 0
        THEN Unchanged(m, "notFound")
        ELSE LET user == m.users[index]
                 st == [m EXCEPT !.users = Splice(@, index),
                                 !.clientConfigs = PruneConfigs(@, user.id)]
             IN  Persisted(st, Persist(st, wOk, cOk, "none"), <<>>, Undefined)

\* a setUserEnabled that also draws new Reality keys
setUserEnabledRekeying(m, nameOrId, enabled, wOk, cOk) ==
    LET index == FindIndex(m.users, nameOrId)
    IN  IF index = 0
        THEN Unchanged(m, "notFound")
        ELSE LET d == CHOOSE k \in KeyDraws : k.viaBinary
                 st == [m EXCEPT !.users[index].enabled = enabled,
                                 !.server = generateDefaultServerConfig(m.server.host, 443, d)]
             IN  Persisted(st, Persist(st, wOk, cOk, "none"), <<>>, Undefined)

\* a setUserEnabled that flips the flag whatever value it is given
setUserEnabledToggling(m, nameOrId, enabled, wOk, cOk) ==
    LET index == FindIndex(m.users, nameOrId)
    IN  IF index = 0
        THEN Unchanged(m, "notFound")
        ELSE LET st == [m EXCEPT !.users[index].enabled = ~@]
             IN  Persisted(st, Persist(st, wOk, cOk, "none"), <<>>, Undefined)

setUserEnabled(m, nameOrId, enabled, wOk, cOk) ==
    LET index == FindIndex(m.users, nameOrId)
    IN  IF index = 0
        THEN Unchanged(m, "notFound")
        ELSE LET st == [m EXCEPT !.users[index].enabled = enabled]
             IN  Persisted(st, Persist(st, wOk, cOk, "none"), <<>>, Undefined)

\* a read that also saves the state
ReturnsAfterSave(m, value) ==
    Step(m, JSONStringify(m), configFile, "ok", <<"stateWrite">>, value)

\* what a read leaves behind: the state and the files as they were, and its value
Returns(m, value) == Step(m, stateFile, configFile, "ok", <<>>, value)

\* [...this.state.users]
getUsers(m) == Returns(m, m.users)

\* users.find(...): the first match, undefined when there is none
Find(users, nameOrId) ==
    IF FindIndex(users, nameOrId) = 0 THEN Undefined ELSE users[FindIndex(users, nameOrId)]

getUser(m, nameOrId) == Returns(m, Find(m.users, nameOrId))

\* clientConfigs.filter((c) => c.userId === user.id), [] when there is no such user
ConfigsOf(m, nameOrId) ==
    LET user == Find(m.users, nameOrId)
        Mine(c) == c.userId = user.id
    IN  IF user = Undefined THEN <<>> ELSE SelectSeq(m.clientConfigs, Mine)

getClientConfigs(m, nameOrId) == Returns(m, ConfigsOf(m, nameOrId))

getPublicKey(m) ==
    LET IsReality(i) == i.tlsType = "reality"
        found == SelectSeq(m.server.inbounds, IsReality)
    IN  Returns(m, IF found = <<>> \/ found[1].reality = Undefined THEN Undefined
                   ELSE found[1].reality.publicKey)

exportUserConfig(m, nameOrId) ==
    LET configs == ConfigsOf(m, nameOrId)
    IN  Returns(m, IF Len(configs) = 0 THEN Undefined ELSE configs[1].uri)

getStats(m) ==
    LET IsEnabled(u) == u.enabled
        IsDisabled(u) == ~u.enabled
    IN  Returns(m, [totalUsers |-> Len(m.users),
                    activeUsers |-> Len(SelectSeq(m.users, IsEnabled)),
                    disabledUsers |-> Len(SelectSeq(m.users, IsDisabled))])

----------------------------------------------------------------------------
(* Actions *)

Outcome(op, arg, s) ==
    [op |-> op, arg |-> arg, result |-> s.result, effects |-> s.effects, gen |-> s.gen]

\* a write may fail while fewer than MaxFaults writes have failed
IOs == IF faults < MaxFaults THEN IOOutcomes ELSE {<<TRUE, TRUE>>}

\* the proxy is signalled, and the signal may fail, only after both writes
\* succeeded; so is it killed
Hups(io) == IF io = <<TRUE, TRUE>> THEN BOOLEAN ELSE {TRUE}

\* a step's file writes, and the count of the writes that failed; a step that
\* writes nothing is taken once, whatever its writes would have done
Files(s, wOk, cOk) ==
    /\ s.effects = <<>> => wOk /\ cOk
    /\ s.effects = <<"stateRead">> => wOk /\ cOk
    /\ stateFile' = s.file
    /\ configFile' = s.config
    /\ faults' = faults + (IF s.result = "PersistenceFailure" THEN 1 ELSE 0)

\* addUser calls generateUUID unless the name is taken; the roster and the number
\* of draws are bounded
Draws(users, name) ==
    IF NameTaken(users, name)
    THEN draws' = draws
    ELSE /\ Len(users) < MaxUsers
         /\ draws < MaxRand
         /\ draws' = draws + 1

Init ==
    /\ mgr = ConstructorState
    /\ http = NotLoaded
    /\ stateFile = NoFile
    /\ configFile = NoFile
    /\ now = 1
    /\ draws = 0
    /\ faults = 0
    /\ last = [op |-> "none", arg |-> Undefined, result |-> "ok", effects |-> <<>>,
               gen |-> Undefined]
    /\ reqs = {}
    /\ sup = [binary |-> FALSE, singboxProcess |-> 0, alive |-> {}, killed |-> {},
              born |-> <<>>, timers |-> 0, begun |-> 0, done |-> {}]

(* The UserManager as an object: any method on the instance `mgr`, in any order *)

\* new UserManager()
MgrNew ==
    /\ mgr' = ConstructorState
    /\ last' = Outcome("new", Undefined, Unchanged(mgr, "ok"))
    /\ UNCHANGED <<http, stateFile, configFile, now, draws, faults, reqs, sup>>

MgrLoadState ==
    LET s == loadState(mgr)
    IN  /\ mgr' = s.state
        /\ last' = Outcome("loadState", Undefined, s)
        /\ UNCHANGED <<http, stateFile, configFile, now, draws, faults, reqs, sup>>

MgrInitialize(host, port, d, wOk, cOk) ==
    LET s == initialize(mgr, host, port, d, wOk, cOk)
    IN  /\ mgr' = s.state
        /\ Files(s, wOk, cOk)
        /\ last' = Outcome("initialize", <<host, port>>, s)
        /\ UNCHANGED <<http, now, draws, reqs, sup>>

MgrAddUser(name, expiresAt, wOk, cOk) ==
    LET s == addUser(mgr, name, expiresAt, wOk, cOk)
    IN  /\ Draws(mgr.users, name)
        /\ mgr' = s.state
        /\ Files(s, wOk, cOk)
        /\ last' = Outcome("addUser", name, s)
        /\ UNCHANGED <<http, now, reqs, sup>>

MgrRemoveUser(nameOrId, wOk, cOk) ==
    LET s == removeUser(mgr, nameOrId, wOk, cOk)
    IN  /\ mgr' = s.state
        /\ Files(s, wOk, cOk)
        /\ last' = Outcome("removeUser", nameOrId, s)
        /\ UNCHANGED <<http, now, draws, reqs, sup>>

MgrSetUserEnabled(nameOrId, enabled, wOk, cOk) ==
    LET s == setUserEnabled(mgr, nameOrId, enabled, wOk, cOk)
    IN  /\ mgr' = s.state
        /\ Files(s, wOk, cOk)
        /\ last' = Outcome("setUserEnabled", <<nameOrId, enabled>>, s)
        /\ UNCHANGED <<http, now, draws, reqs, sup>>

\* a read of the instance: getUsers, getUser, getClientConfigs, getPublicKey,
\* exportUserConfig, getStats
MgrRead(op, s) ==
    /\ mgr' = s.state
    /\ Files(s, TRUE, TRUE)
    /\ last' = Outcome(op, Undefined, s)
    /\ UNCHANGED <<http, now, draws, reqs, sup>>

MgrGetUsers == MgrRead("getUsers", getUsers(mgr))

MgrGetUser(nameOrId) == MgrRead("getUser", getUser(mgr, nameOrId))

MgrGetClientConfigs(nameOrId) ==
    MgrRead("getClientConfigs", getClientConfigs(mgr, nameOrId))

MgrGetPublicKey == MgrRead("getPublicKey", getPublicKey(mgr))

MgrExportUserConfig(nameOrId) ==
    MgrRead("exportUserConfig", exportUserConfig(mgr, nameOrId))

MgrGetStats == MgrRead("getStats", getStats(mgr))

(* The CLI: every command is a process of its own, with its own UserManager *)

\* init --host --port
CliInit(host, port, d, wOk, cOk) ==
    LET s == initialize(ConstructorState, host, port, d, wOk, cOk)
    IN  /\ Files(s, wOk, cOk)
        /\ last' = Outcome("init", <<host, port>>, s)
        /\ UNCHANGED <<mgr, http, now, draws, reqs, sup>>

\* the loadState() guard of the user commands: when loadState `l` throws, the
\* command reports `failure` and exits; otherwise it goes on to its call `s`
Loaded(l, s, failure) ==
    IF l.result # "ok"
    THEN Unchanged(ConstructorState, failure)
    ELSE [s EXCEPT !.effects = l.effects \o @]

\* user:add --name --expires
CliUserAdd(name, expiresAt, wOk, cOk) ==
    LET l == loadState(ConstructorState)
        s == Loaded(l, addUser(l.state, name, expiresAt, wOk, cOk), "NotInitialized")
    IN  /\ IF StateExists THEN Draws(stateFile.users, name) ELSE draws' = draws
        /\ Files(s, wOk, cOk)
        /\ last' = Outcome("user:add", name, s)
        /\ UNCHANGED <<mgr, http, now, reqs, sup>>

\* user:remove <name>
CliUserRemove(name, wOk, cOk) ==
    LET l == loadState(ConstructorState)
        s == Loaded(l, removeUser(l.state, name, wOk, cOk), "NotInitialized")
    IN  /\ Files(s, wOk, cOk)
        /\ last' = Outcome("user:remove", Undefined, s)
        /\ UNCHANGED <<mgr, http, now, draws, reqs, sup>>

\* user:enable <name>, user:disable <name>
CliUserEnable(name, enabled, wOk, cOk) ==
    LET l == loadState(ConstructorState)
        s == Loaded(l, setUserEnabled(l.state, name, enabled, wOk, cOk), "Failed")
    IN  /\ Files(s, wOk, cOk)
        /\ last' = Outcome(IF enabled THEN "user:enable" ELSE "user:disable", Undefined, s)
        /\ UNCHANGED <<mgr, http, now, draws, reqs, sup>>

\* the exit status of a user command: process.exit(1) after a failed loadState,
\* in the catch block of user:enable and user:disable, and when removeUser returns
\* false; 1 too when the action's promise rejects uncaught (addUser, removeUser
\* throwing); 0 when the action runs to its end, as it does after setUserEnabled
\* returns false
ExitStatus(op, result) ==
    IF result = "ok" THEN 0
    ELSE IF op \in {"user:enable", "user:disable"} /\ result = "notFound" THEN 0
    ELSE 1

(* server.ts: the HTTP control surface *)

\* loadState(): the parsed file as it is, or a fresh state for the environment's host
HttpLoadState(d) ==
    IF stateFile # NoFile
    THEN stateFile
    ELSE [version |-> 1,
          server |-> generateDefaultServerConfig(ENV_SERVER_HOST, ENV_SERVER_PORT, d),
          users |-> <<>>,
          clientConfigs |-> <<>>]

\* main(): a rejected promise is logged and the server never listens
HttpMain(d, wOk, cOk, hup) ==
    LET st == HttpLoadState(d)
        p == Persist(st, wOk, cOk, Signal(hup))
        s == Persisted(st, [p EXCEPT !.effects = @ \o (IF p.ok THEN <<"spawn">> ELSE <<>>)],
                       IF StateExists THEN <<"stateRead">> ELSE <<"keygen">>,
                       IF StateExists THEN Undefined ELSE Generated(d))
    IN  /\ http = NotLoaded
        /\ http' = IF p.ok THEN st ELSE NotLoaded
        /\ Files(s, wOk, cOk)
        /\ last' = Outcome("main", Undefined, s)
        /\ UNCHANGED <<mgr, now, draws, reqs, sup>>

\* the service process ends, and the requests it was working on with it
HttpExit ==
    /\ http # NotLoaded
    /\ http' = NotLoaded
    /\ reqs' = {}
    /\ last' = Outcome("exit", Undefined, Unchanged(http, "ok"))
    /\ UNCHANGED <<mgr, stateFile, configFile, now, draws, faults, sup>>

\* a POST /api/users that reads the state file again before it pushes the user
HttpAddUserReloading(name, wOk, cOk, hup) ==
    /\ http # NotLoaded
    /\ stateFile # NoFile
    /\ name # ""
    /\ LET user == HttpNewUser(UUIDOfDraw(draws + 1), name)
           st == [stateFile EXCEPT !.users = Append(@, user)]
           s == Persisted(st, Persist(st, wOk, cOk, Signal(hup)), <<>>,
                          [user |-> user, configs |-> generateClientConfig(user, st.server)])
       IN  /\ Len(stateFile.users) < MaxUsers
           /\ draws < MaxRand
           /\ draws' = draws + 1
           /\ http' = st
           /\ Files(s, wOk, cOk)
           /\ last' = Outcome("POST /api/users", name, s)
    /\ UNCHANGED <<mgr, now, reqs, sup>>

\* POST /api/users {name}
HttpAddUser(name, wOk, cOk, hup) ==
    /\ http # NotLoaded
    /\ IF name = ""
       THEN /\ last' = Outcome("POST /api/users", name, Unchanged(http, "400"))
            /\ UNCHANGED <<http, stateFile, configFile, draws, faults>>
       ELSE LET user == HttpNewUser(UUIDOfDraw(draws + 1), name)
                st == [http EXCEPT !.users = Append(@, user)]
                s == Persisted(st, Persist(st, wOk, cOk, Signal(hup)), <<>>,
                               [user |-> user, configs |-> generateClientConfig(user, st.server)])
            IN  /\ Len(http.users) < MaxUsers
                /\ draws < MaxRand
                /\ draws' = draws + 1
                /\ http' = st
                /\ Files(s, wOk, cOk)
                /\ last' = Outcome("POST /api/users", name, s)
    /\ UNCHANGED <<mgr, now, reqs, sup>>

\* DELETE /api/users/:id
HttpDeleteUser(userId, wOk, cOk, hup) ==
    /\ http # NotLoaded
    /\ IF \A i \in 1..Len(http.users) : http.users[i].id # userId
       THEN /\ last' = Outcome("DELETE /api/users", Undefined, Unchanged(http, "404"))
            /\ UNCHANGED <<http, stateFile, configFile, faults>>
       ELSE LET index == CHOOSE i \in 1..Len(http.users) :
                            /\ http.users[i].id = userId
                            /\ \A j \in 1..(i - 1) : http.users[j].id # userId
                st == [http EXCEPT !.users = Splice(@, index)]
                s == Persisted(st, Persist(st, wOk, cOk, Signal(hup)), <<>>, Undefined)
            IN  /\ http' = st
                /\ Files(s, wOk, cOk)
                /\ last' = Outcome("DELETE /api/users", Undefined, s)
    /\ UNCHANGED <<mgr, now, draws, reqs, sup>>

\* POST /api/reset; `running` says whether singboxProcess holds a process
HttpReset(d, wOk, cOk, hup, running) ==
    LET st == [http EXCEPT
                  !.server = generateDefaultServerConfig(ENV_SERVER_HOST, ENV_SERVER_PORT, d),
                  !.users = <<>>]
        p == Persist(st, wOk, cOk, Signal(hup))
        s == Persisted(st, [p EXCEPT !.effects = @
                                \o (IF p.ok /\ running THEN <<"kill">> ELSE <<>>)
                                \o (IF p.ok THEN <<"restartTimer">> ELSE <<>>)],
                       <<"keygen">>, Generated(d))
    IN  /\ http # NotLoaded
        /\ http' = st
        /\ Files(s, wOk, cOk)
        /\ last' = Outcome("POST /api/reset", Undefined, s)
        /\ UNCHANGED <<mgr, now, draws, reqs, sup>>

\* the expiresAt option of addUser: none, or a date already in the past
ExpiryChoices == {Undefined, DateOf(now - 1)}

----------------------------------------------------------------------------
(* Specifications *)

\* the deployment: the HTTP service and CLI commands over one state file
Next ==
    \/ \E a \in CliInitArgs, d \in KeyDraws, io \in IOs :
            CliInit(a[1], a[2], d, io[1], io[2])
    \/ \E name \in Names, io \in IOs : CliUserAdd(name, Undefined, io[1], io[2])
    \/ \E name \in Names, io \in IOs : CliUserRemove(name, io[1], io[2])
    \/ \E name \in Names, en \in BOOLEAN, io \in IOs :
            CliUserEnable(name, en, io[1], io[2])
    \/ \E d \in KeyDraws, io \in IOs : \E hup \in Hups(io) :
            HttpMain(d, io[1], io[2], hup)
    \/ HttpExit
    \/ \E name \in Names \cup {""}, io \in IOs : \E hup \in Hups(io) :
            HttpAddUser(name, io[1], io[2], hup)
    \/ \E id \in allocated, io \in IOs : \E hup \in Hups(io) :
            HttpDeleteUser(id, io[1], io[2], hup)
    \/ \E d \in KeyDraws, io \in IOs : \E hup \in Hups(io), running \in Hups(io) :
            HttpReset(d, io[1], io[2], hup, running)

Spec == Init /\ [][Next]_vars

\* one UserManager instance used as an object
NextMgr ==
    \/ MgrNew
    \/ MgrLoadState
    \/ \E a \in InitArgs, d \in KeyDraws, io \in IOs :
            MgrInitialize(a[1], a[2], d, io[1], io[2])
    \/ \E name \in Names, e \in ExpiryChoices, io \in IOs :
            MgrAddUser(name, e, io[1], io[2])
    \/ \E x \in NameOrIds, io \in IOs : MgrRemoveUser(x, io[1], io[2])
    \/ \E x \in NameOrIds, en \in BOOLEAN, io \in IOs :
            MgrSetUserEnabled(x, en, io[1], io[2])
    \/ MgrGetUsers
    \/ \E x \in NameOrIds : MgrGetUser(x)
    \/ \E x \in NameOrIds : MgrGetClientConfigs(x)
    \/ MgrGetPublicKey
    \/ \E x \in NameOrIds : MgrExportUserConfig(x)
    \/ MgrGetStats

SpecMgr == Init /\ [][NextMgr]_vars

----------------------------------------------------------------------------
(* The descriptor generators as functions: generateVlessUri and generateClientConfig
   called with any user, server and inbound, whatever state the manager is in *)

\* the Protocol and TLSType values the calls are made with
Protocols == {"vless", "trojan"}
TLSTypes == {"reality", "tls", "none"}

\* the users, hosts and ports the calls are made with
UriUsers == {[id |-> UUIDs[1], name |-> "alice"], [id |-> UUIDs[2], name |-> "my phone"]}
UriHosts == {"203.0.113.5", "vpn.example.com"}
UriPorts == {443, 8443}

\* an InboundConfig of each protocol and TLS type; `reality` is optional and is
\* there whenever tlsType is 'reality'
UriInbounds ==
    UNION { { [tag |-> "in", protocol |-> p, listen |-> "0.0.0.0", port |-> port,
               tlsType |-> t, reality |-> r]
              : r \in IF t = "reality" THEN {RealityConfigs[d]}
                      ELSE {RealityConfigs[d], Undefined} }
            : p \in Protocols, t \in TLSTypes, port \in UriPorts, d \in KeyDraws }

\* a ServerConfig with that one inbound
UriServer(host, inbound) ==
    [host |-> host, inbounds |-> <<inbound>>,
     dns |-> [servers |-> <<"8.8.8.8", "1.1.1.1">>, useSystemDns |-> FALSE],
     logLevel |-> "info"]

\* the outcome of a call that returns `value` or throws the unsupported error
Called(op, arg, threw, value) ==
    [op |-> op, arg |-> arg,
     result |-> IF threw THEN "UnsupportedProtocolCombination" ELSE "ok",
     effects |-> <<>>,
     gen |-> IF threw THEN [error |-> UnsupportedUri] ELSE value]

CallGenerateVlessUri(user, serverConfig, inbound) ==
    LET uri == generateVlessUri(user, serverConfig, inbound)
    IN  /\ last' = Called("generateVlessUri", <<user, serverConfig, inbound>>,
                          uri = UnsupportedUri, uri)
        /\ UNCHANGED <<mgr, http, stateFile, configFile, now, draws, faults, reqs, sup>>

\* inbounds.map throws as soon as generateVlessUri throws for one inbound
CallGenerateClientConfig(user, serverConfig) ==
    LET configs == generateClientConfig(user, serverConfig)
    IN  /\ last' = Called("generateClientConfig", <<user, serverConfig>>,
                          \E i \in 1..Len(configs) : configs[i].uri = UnsupportedUri,
                          configs)
        /\ UNCHANGED <<mgr, http, stateFile, configFile, now, draws, faults, reqs, sup>>

NextUri ==
    \/ \E a \in InitArgs, d \in KeyDraws : MgrInitialize(a[1], a[2], d, TRUE, TRUE)
    \/ \E name \in Names : MgrAddUser(name, Undefined, TRUE, TRUE)
    \/ \E user \in UriUsers, host \in UriHosts, inbound \in UriInbounds :
            CallGenerateVlessUri(user, UriServer(host, inbound), inbound)
    \/ \E user \in UriUsers, host \in UriHosts, inbound \in UriInbounds :
            CallGenerateClientConfig(user, UriServer(host, inbound))

SpecUri == Init /\ [][NextUri]_vars

----------------------------------------------------------------------------
(* The UserManager called with any string as a name: the empty string, and
   strings that are the id of a user *)

\* the names and nameOrId arguments: a plain name, the empty string, and the two
\* ids generateUUID returns first
AnyNames == {"alice", "", UUIDs[1], UUIDs[2]}

NextNames ==
    \/ \E a \in InitArgs, d \in KeyDraws : MgrInitialize(a[1], a[2], d, TRUE, TRUE)
    \/ \E name \in AnyNames : MgrAddUser(name, Undefined, TRUE, TRUE)
    \/ \E x \in AnyNames : MgrRemoveUser(x, TRUE, TRUE)
    \/ \E x \in AnyNames, en \in BOOLEAN : MgrSetUserEnabled(x, en, TRUE, TRUE)

SpecNames == Init /\ [][NextNames]_vars

----------------------------------------------------------------------------
(* The UserManager over time: the clock advances between the calls, so users
   are created, and the state is loaded, at different times *)

Tick ==
    /\ now < MaxNow
    /\ now' = now + 1
    /\ UNCHANGED <<mgr, http, stateFile, configFile, draws, faults, last, reqs, sup>>

NextClock ==
    \/ Tick
    \/ MgrNew
    \/ MgrLoadState
    \/ \E a \in CliInitArgs, d \in KeyDraws : MgrInitialize(a[1], a[2], d, TRUE, TRUE)
    \/ \E name \in Names : MgrAddUser(name, Undefined, TRUE, TRUE)
    \/ \E x \in NameOrIds : MgrRemoveUser(x, TRUE, TRUE)
    \/ \E x \in NameOrIds, en \in BOOLEAN : MgrSetUserEnabled(x, en, TRUE, TRUE)

SpecClock == Init /\ [][NextClock]_vars

----------------------------------------------------------------------------
(* server.ts, await by await: handleRequest runs up to an await, other requests
   run while it is suspended, and it resumes when the awaited write has landed.
   Writes of two requests to one file are not ordered: either may land first. *)

\* a request suspended at `pc`: "generate" (reset awaits generateDefaultServerConfig),
\* "saveState" (writeFile of `doc` under way), "stateSaved" (it landed),
\* "saveConfig" (saveConfig of `doc` under way), "configSaved" (it landed)
Request(op, arg, pc, doc) == [op |-> op, arg |-> arg, pc |-> pc, doc |-> doc]

Suspend(r, pc, doc) == reqs' = (reqs \ {r}) \cup {[r EXCEPT !.pc = pc, !.doc = doc]}

\* the catch block of handleRequest: the write threw, the response is a 500
Responds(r, result, effects) ==
    /\ reqs' = reqs \ {r}
    /\ last' = [op |-> r.op, arg |-> r.arg, result |-> result, effects |-> effects,
                gen |-> Undefined]

\* POST /api/users up to `await saveState()`: the user is pushed and the state
\* is stringified for writeFile
PostUsersBegin(name) ==
    /\ http # NotLoaded
    /\ Cardinality(reqs) < MaxInflight
    /\ IF name = ""
       THEN /\ last' = Outcome("POST /api/users", name, Unchanged(http, "400"))
            /\ UNCHANGED <<http, draws, reqs>>
       ELSE LET user == HttpNewUser(UUIDOfDraw(draws + 1), name)
                st == [http EXCEPT !.users = Append(@, user)]
            IN  /\ Len(http.users) < MaxUsers
                /\ draws < MaxRand
                /\ draws' = draws + 1
                /\ http' = st
                /\ reqs' = reqs \cup {Request("POST /api/users", user.id, "saveState",
                                              JSONStringify(st))}
                /\ UNCHANGED last
    /\ UNCHANGED <<mgr, stateFile, configFile, now, faults, sup>>

\* DELETE /api/users/:id up to `await saveState()`
DeleteUserBegin(userId) ==
    /\ http # NotLoaded
    /\ Cardinality(reqs) < MaxInflight
    /\ IF \A i \in 1..Len(http.users) : http.users[i].id # userId
       THEN /\ last' = Outcome("DELETE /api/users", userId, Unchanged(http, "404"))
            /\ UNCHANGED <<http, reqs>>
       ELSE LET index == CHOOSE i \in 1..Len(http.users) :
                            /\ http.users[i].id = userId
                            /\ \A j \in 1..(i - 1) : http.users[j].id # userId
                st == [http EXCEPT !.users = Splice(@, index)]
            IN  /\ http' = st
                /\ reqs' = reqs \cup {Request("DELETE /api/users", userId, "saveState",
                                              JSONStringify(st))}
                /\ UNCHANGED last
    /\ UNCHANGED <<mgr, stateFile, configFile, now, draws, faults, sup>>

\* POST /api/reset up to `await generateDefaultServerConfig(host, port)`
ResetBegin ==
    /\ http # NotLoaded
    /\ Cardinality(reqs) < MaxInflight
    /\ \A r \in reqs : r.op # "POST /api/reset"
    /\ reqs' = reqs \cup {Request("POST /api/reset", Undefined, "generate", Undefined)}
    /\ UNCHANGED <<mgr, http, stateFile, configFile, now, draws, faults, last, sup>>

\* reset resumes with the new server config: state.server and state.users are
\* assigned and the state is stringified for writeFile
ResetAssign(r, d) ==
    LET st == [http EXCEPT
                  !.server = generateDefaultServerConfig(ENV_SERVER_HOST, ENV_SERVER_PORT, d),
                  !.users = <<>>]
    IN  /\ r.pc = "generate"
        /\ http' = st
        /\ Suspend(r, "saveState", JSONStringify(st))
        /\ UNCHANGED <<mgr, stateFile, configFile, now, draws, faults, last, sup>>

\* the writeFile of saveState() lands, or fails
StateWriteLands(r, ok) ==
    /\ r.pc = "saveState"
    /\ IF ok
       THEN /\ stateFile' = r.doc
            /\ Suspend(r, "stateSaved", Undefined)
            /\ UNCHANGED <<faults, last>>
       ELSE /\ faults' = faults + 1
            /\ Responds(r, "PersistenceFailure", <<"stateWriteFailed">>)
            /\ UNCHANGED stateFile
    /\ UNCHANGED <<mgr, http, configFile, now, draws, sup>>

\* the request resumes in updateSingboxConfig(): the state as it is now is
\* compiled and saveConfig stringifies it for writeFile
UpdateSingboxConfig(r) ==
    /\ r.pc = "stateSaved"
    /\ Suspend(r, "saveConfig", toSingboxConfig(http.server, http.users))
    /\ UNCHANGED <<mgr, http, stateFile, configFile, now, draws, faults, last, sup>>

\* the writeFile of saveConfig() lands, or fails
ConfigWriteLands(r, ok) ==
    /\ r.pc = "saveConfig"
    /\ IF ok
       THEN /\ configFile' = r.doc
            /\ Suspend(r, "configSaved", Undefined)
            /\ UNCHANGED <<faults, last>>
       ELSE /\ faults' = faults + 1
            /\ Responds(r, "PersistenceFailure", <<"stateWrite", "configWriteFailed">>)
            /\ UNCHANGED configFile
    /\ UNCHANGED <<mgr, http, stateFile, now, draws, sup>>

\* the request resumes after saveConfig: `pkill -HUP sing-box`, for reset the
\* kill and the restart timer, and the response
Respond(r, hup, running) ==
    /\ r.pc = "configSaved"
    /\ r.op # "POST /api/reset" => running
    /\ Responds(r, "ok",
                <<"stateWrite", "configWrite">> \o Reload(Signal(hup))
                \o (IF r.op = "POST /api/reset"
                    THEN (IF running THEN <<"kill">> ELSE <<>>) \o <<"restartTimer">>
                    ELSE <<>>))
    /\ UNCHANGED <<mgr, http, stateFile, configFile, now, draws, faults, sup>>

\* a write of a request may fail while fewer than MaxFaults writes have failed
Lands == IF faults < MaxFaults THEN BOOLEAN ELSE {TRUE}

NextSrv ==
    \/ \E d \in KeyDraws, io \in IOs : \E hup \in Hups(io) :
            HttpMain(d, io[1], io[2], hup)
    \/ HttpExit
    \/ \E name \in Names \cup {""} : PostUsersBegin(name)
    \/ \E id \in allocated : DeleteUserBegin(id)
    \/ ResetBegin
    \/ \E r \in reqs, d \in KeyDraws : ResetAssign(r, d)
    \/ \E r \in reqs, ok \in Lands : StateWriteLands(r, ok)
    \/ \E r \in reqs : UpdateSingboxConfig(r)
    \/ \E r \in reqs, ok \in Lands : ConfigWriteLands(r, ok)
    \/ \E r \in reqs, hup \in BOOLEAN, running \in BOOLEAN : Respond(r, hup, running)

SpecSrv == Init /\ [][NextSrv]_vars

----------------------------------------------------------------------------
(* server.ts and the proxy process it supervises: main() starts sing-box, a
   reset kills it and arms a timer that starts it again, and a killed process
   exits, and emits its 'exit' event, whenever it gets to it.  `sup` holds
   singboxProcess (0 for null, else the process), the processes that are alive,
   those alive ones that were sent the kill signal, for every process the
   resets whose config had been written when it was spawned, the restart
   timers that are armed, and the resets begun and responded to. *)

\* startSingbox(): returns if singboxProcess is set or no binary answers
\* `version`; else spawns the process and keeps it in singboxProcess
startSingbox(s, written) ==
    IF s.singboxProcess # 0 \/ ~s.binary
    THEN s
    ELSE [s EXCEPT !.singboxProcess = Len(s.born) + 1,
                   !.alive = @ \cup {Len(s.born) + 1},
                   !.born = Append(@, written)]

\* the resets whose saveConfig has landed: answered, or suspended after it
Written == sup.done \cup {r.arg : r \in {q \in reqs : q.pc = "configSaved"}}

\* main(): loadState, saveState, updateSingboxConfig, startSingbox; `found`
\* says whether a sing-box binary is installed
StartService(d, found) ==
    LET st == HttpLoadState(d)
        s == Persisted(st, Persist(st, TRUE, TRUE, "hup"), <<"spawn">>, Undefined)
    IN  /\ http = NotLoaded
        /\ http' = st
        /\ Files(s, TRUE, TRUE)
        /\ last' = Outcome("main", Undefined, s)
        /\ sup' = startSingbox([sup EXCEPT !.binary = found], {})
        /\ UNCHANGED <<mgr, now, draws, reqs>>

\* POST /api/reset up to `await generateDefaultServerConfig(host, port)`; the
\* request is told from an overlapping one by its ordinal
ResetArrives ==
    /\ http # NotLoaded
    /\ Cardinality(reqs) < MaxInflight
    /\ sup.begun < MaxResets
    /\ reqs' = reqs \cup {Request("POST /api/reset", sup.begun + 1, "generate", Undefined)}
    /\ sup' = [sup EXCEPT !.begun = @ + 1]
    /\ UNCHANGED <<mgr, http, stateFile, configFile, now, draws, faults, last>>

\* a reset that kills the process and leaves singboxProcess set
ResetRestartKeepingHandle(r) ==
    /\ r.op = "POST /api/reset"
    /\ r.pc = "configSaved"
    /\ Responds(r, "ok",
                <<"stateWrite", "configWrite", "hup">>
                \o (IF sup.singboxProcess # 0 THEN <<"kill">> ELSE <<>>)
                \o <<"restartTimer">>)
    /\ sup' = [sup EXCEPT !.killed = IF sup.singboxProcess # 0
                                     THEN @ \cup {sup.singboxProcess} ELSE @,
                          !.timers = @ + 1,
                          !.done = @ \cup {r.arg}]
    /\ UNCHANGED <<mgr, http, stateFile, configFile, now, draws, faults>>

\* the reset resumes after updateSingboxConfig(): singboxProcess, if set, is
\* killed and set to null, the restart timer is armed, and the response is sent
ResetRestart(r) ==
    /\ r.op = "POST /api/reset"
    /\ r.pc = "configSaved"
    /\ Responds(r, "ok",
                <<"stateWrite", "configWrite", "hup">>
                \o (IF sup.singboxProcess # 0 THEN <<"kill">> ELSE <<>>)
                \o <<"restartTimer">>)
    /\ sup' = [sup EXCEPT !.killed = IF sup.singboxProcess # 0
                                     THEN @ \cup {sup.singboxProcess} ELSE @,
                          !.singboxProcess = 0,
                          !.timers = @ + 1,
                          !.done = @ \cup {r.arg}]
    /\ UNCHANGED <<mgr, http, stateFile, configFile, now, draws, faults>>

\* a restart timer fires: setTimeout(() => startSingbox(), 1000)
RestartTimer ==
    /\ sup.timers > 0
    /\ sup' = startSingbox([sup EXCEPT !.timers = @ - 1], Written)
    /\ UNCHANGED <<mgr, http, stateFile, configFile, now, draws, faults, last, reqs>>

\* a killed process exits and its 'exit' handler runs: singboxProcess = null
ProcessExits(p) ==
    /\ p \in sup.killed
    /\ sup' = [sup EXCEPT !.alive = @ \ {p}, !.killed = @ \ {p}, !.singboxProcess = 0]
    /\ UNCHANGED <<mgr, http, stateFile, configFile, now, draws, faults, last, reqs>>

NextProc ==
    \/ \E d \in KeyDraws, found \in BOOLEAN : StartService(d, found)
    \/ ResetArrives
    \/ \E r \in reqs, d \in KeyDraws : ResetAssign(r, d)
    \/ \E r \in reqs : StateWriteLands(r, TRUE)
    \/ \E r \in reqs : UpdateSingboxConfig(r)
    \/ \E r \in reqs : ConfigWriteLands(r, TRUE)
    \/ \E r \in reqs : ResetRestart(r)
    \/ RestartTimer
    \/ \E p \in sup.killed : ProcessExits(p)

\* a timer that is armed fires
SpecProc == Init /\ [][NextProc]_vars /\ WF_vars(RestartTimer)

----------------------------------------------------------------------------
(* The UserManager on a state file it did not write: the file is a JSON document
   of the deployment, and its server may hold an inbound of any Protocol and
   TLSType of InboundConfig *)

\* a state file with the server `serverConfig`, no user and no descriptor is put
\* where the manager looks for its state, before the manager has written one
StateFileWritten(serverConfig) ==
    /\ stateFile = NoFile
    /\ stateFile' = JSONStringify([ConstructorState EXCEPT !.server = serverConfig])
    /\ last' = [op |-> "stateFileWritten", arg |-> serverConfig, result |-> "ok",
                effects |-> <<>>, gen |-> Undefined]
    /\ UNCHANGED <<mgr, http, configFile, now, draws, faults, reqs, sup>>

NextInbound ==
    \/ \E host \in UriHosts, inbound \in UriInbounds :
            StateFileWritten(UriServer(host, inbound))
    \/ MgrNew
    \/ MgrLoadState
    \/ \E name \in Names : MgrAddUser(name, Undefined, TRUE, TRUE)
    \/ \E x \in Names : MgrRemoveUser(x, TRUE, TRUE)

SpecInbound == Init /\ [][NextInbound]_vars

----------------------------------------------------------------------------
(* Properties *)

\* the rosters the program holds: the UserManager's, the service's, the state file's
Rosters ==
    {mgr.users}
    \cup (IF http = NotLoaded THEN {} ELSE {http.users})
    \cup (IF stateFile = NoFile THEN {} ELSE {stateFile.users})

\* C1: no two users of a roster have the same name, whichever surface created them
C1_UniqueNames ==
    \A users \in Rosters :
        \A i, j \in 1..Len(users) : i # j => users[i].name # users[j].name

\* C2: addUser with a name some user already has, enabled or disabled, throws the
\* duplicate error and leaves the roster, the descriptor cache, the state file and
\* the config file as they were
C2_DuplicateRejected ==
    [][ (/\ last'.op = "addUser"
         /\ \E i \in 1..Len(mgr.users) : mgr.users[i].name = last'.arg)
        => /\ last'.result = "DuplicateUser"
           /\ mgr'.users = mgr.users
           /\ mgr'.clientConfigs = mgr.clientConfigs
           /\ stateFile' = stateFile
           /\ configFile' = configFile ]_vars

C2_Witness ==
    /\ last.op = "addUser"
    /\ last.result = "DuplicateUser"
    /\ \E i \in 1..Len(mgr.users) : mgr.users[i].name = last.arg /\ ~mgr.users[i].enabled
    /\ \E i \in 1..Len(mgr.users) : mgr.users[i].name # last.arg

\* C3: no two users of a roster have the same id, every generated id being fresh
C3_UniqueIds ==
    \A users \in Rosters :
        \A i, j \in 1..Len(users) : i # j => users[i].id # users[j].id

\* two users in the state file, one added by the CLI and one by the service
C3_Witness ==
    /\ stateFile # NoFile
    /\ Len(stateFile.users) = 2
    /\ Len(stateFile.clientConfigs) = 1
    /\ draws = 2

\* C4: every inbound of the compiled configuration lists the ids of the enabled
\* users, in roster order: a disabled user is absent, an enabled one is present
\* whether or not its expiresAt has passed; the config file holds that list after
\* every successful operation of the manager
C4_CompiledUsers ==
    LET IsEnabled(u) == u.enabled
        enabled == SelectSeq(mgr.users, IsEnabled)
        ids == [k \in 1..Len(enabled) |-> enabled[k].id]
        Uuids(inbound) == [k \in 1..Len(inbound.users) |-> inbound.users[k].uuid]
        compiled == toSingboxConfig(mgr.server, mgr.users)
    IN  /\ Len(compiled.inbounds) = Len(mgr.server.inbounds)
        /\ \A i \in 1..Len(compiled.inbounds) : Uuids(compiled.inbounds[i]) = ids
        /\ (/\ last.op \in {"initialize", "addUser", "removeUser", "setUserEnabled"}
            /\ last.result = "ok"
            /\ last.effects # <<"stateRead">>)
           => /\ Len(configFile.inbounds) = Len(mgr.server.inbounds)
              /\ \A i \in 1..Len(configFile.inbounds) : Uuids(configFile.inbounds[i]) = ids

\* a disabled user and an enabled user whose expiry has passed, after a compile
C4_Witness ==
    /\ last.op = "setUserEnabled"
    /\ last.result = "ok"
    /\ Len(mgr.users) = 2
    /\ Len(configFile.inbounds) = 1
    /\ \E i, j \in 1..2 :
            /\ ~mgr.users[i].enabled
            /\ mgr.users[j].enabled
            /\ mgr.users[j].expiresAt # Undefined
            /\ mgr.users[j].expiresAt.date < now
            /\ Len(configFile.inbounds[1].users) = 1
            /\ configFile.inbounds[1].users[1].uuid = mgr.users[j].id

\* C5: when removeUser succeeds exactly one user has left the roster, no
\* descriptor with its id remains, and the descriptors of the other users remain
C5_RemovePrunes ==
    [][ (last'.op = "removeUser" /\ last'.result = "ok")
        => \E k \in 1..Len(mgr.users) :
              LET id == mgr.users[k].id
                  Others(c) == c.userId # id
              IN  /\ mgr'.users = SubSeq(mgr.users, 1, k - 1)
                                  \o SubSeq(mgr.users, k + 1, Len(mgr.users))
                  /\ \A i \in 1..Len(mgr'.users) : mgr'.users[i].id # id
                  /\ \A i \in 1..Len(mgr'.clientConfigs) : mgr'.clientConfigs[i].userId # id
                  /\ mgr'.clientConfigs = SelectSeq(mgr.clientConfigs, Others) ]_vars

\* a removal that left one user and that user's descriptor behind
C5_Witness ==
    /\ last.op = "removeUser"
    /\ last.result = "ok"
    /\ Len(mgr.users) = 1
    /\ Len(mgr.clientConfigs) = 1
    /\ mgr.clientConfigs[1].userId = mgr.users[1].id
    /\ draws = 2

\* C6: when reset has completed, the server holds the key pair and short ids
\* generated by that reset, and the roster and the descriptor cache are empty, in
\* the service's memory and in the state file
C6_ResetClearsAll ==
    (last.op = "POST /api/reset" /\ last.result = "ok")
    => LET reality == http.server.inbounds[1].reality
       IN  /\ reality.privateKey = last.gen.keys.privateKey
           /\ reality.publicKey = last.gen.keys.publicKey
           /\ reality.shortIds = last.gen.shortIds
           /\ http.users = <<>>
           /\ http.clientConfigs = <<>>
           /\ stateFile.server = http.server
           /\ stateFile.users = <<>>
           /\ stateFile.clientConfigs = <<>>

\* C7: initialize, when the state file exists, writes no file, generates no key,
\* and leaves the manager with exactly the persisted server and users, whatever
\* host and port it is given and however often it is called
C7_InitializeLoads ==
    [][ (last'.op = "initialize" /\ stateFile # NoFile)
        => /\ stateFile' = stateFile
           /\ configFile' = configFile
           /\ last'.result = "ok"
           /\ last'.gen = Undefined
           /\ \A i \in 1..Len(last'.effects) : last'.effects[i] # "keygen"
           /\ mgr'.server = stateFile.server
           /\ mgr'.clientConfigs = stateFile.clientConfigs
           /\ Len(mgr'.users) = Len(stateFile.users)
           /\ \A i \in 1..Len(stateFile.users) :
                 /\ mgr'.users[i].id = stateFile.users[i].id
                 /\ mgr'.users[i].name = stateFile.users[i].name
                 /\ mgr'.users[i].enabled = stateFile.users[i].enabled
                 /\ DateToJSON(mgr'.users[i].createdAt) = stateFile.users[i].createdAt
                 /\ DateToJSON(mgr'.users[i].expiresAt) = stateFile.users[i].expiresAt ]_vars

\* a second initialize, with another host than the persisted one, on a state with users
C7_Witness ==
    /\ last.op = "initialize"
    /\ last.effects = <<"stateRead">>
    /\ Len(mgr.users) > 0
    /\ Len(mgr.server.inbounds) = 1
    /\ last.arg[1] # mgr.server.host
    /\ last.arg[2] # mgr.server.inbounds[1].port

\* C8: while no state file exists and initialize has never been called, addUser,
\* removeUser, setUserEnabled and loadState fail with the not-initialized condition
\* and change neither the manager's state nor a file
C8_UninitializedRejects ==
    [][ (/\ mgr = ConstructorState
         /\ stateFile = NoFile
         /\ last'.op \in {"addUser", "removeUser", "setUserEnabled", "loadState"})
        => /\ last'.result = "NotInitialized"
           /\ mgr' = mgr
           /\ stateFile' = stateFile
           /\ configFile' = configFile ]_vars

\* C9: in every operation the state-file write comes before the config-file write,
\* and the config-file write before any reload, kill, restart or spawn of the proxy
C9_WriteOrder ==
    LET E == last.effects
        Signals == {"reload", "reloadFailed", "kill", "restartTimer", "spawn"}
        ConfigWrites == {"configWrite", "configWriteFailed"}
    IN  \A i \in 1..Len(E) :
            /\ E[i] \in ConfigWrites => \E j \in 1..(i - 1) : E[j] = "stateWrite"
            /\ E[i] \in Signals => \E j \in 1..(i - 1) : E[j] = "configWrite"
            /\ E[i] \in {"stateWrite", "stateWriteFailed"}
                  => \A j \in 1..(i - 1) : E[j] \notin ConfigWrites \cup Signals

\* a reset that wrote both files, signalled the proxy, killed it and armed the restart
C9_Witness ==
    /\ last.op = "POST /api/reset"
    /\ last.effects = <<"keygen", "stateWrite", "configWrite", "reload", "kill", "restartTimer">>

\* C10: when the state-file write of addUser, removeUser or setUserEnabled fails,
\* the roster and the descriptor cache in memory are what they were before the call
C10_FailedWriteNotCommitted ==
    [][ (/\ last'.op \in {"addUser", "removeUser", "setUserEnabled"}
         /\ last'.effects = <<"stateWriteFailed">>)
        => /\ mgr'.users = mgr.users
           /\ mgr'.clientConfigs = mgr.clientConfigs ]_vars

\* C11: when the state-file write of an operation fails, the operation stops there:
\* neither file changes, the config file is not written, the proxy is not
\* signalled, and the caller gets the failure
C11_FailedStateWriteAborts ==
    [][ (\E i \in 1..Len(last'.effects) : last'.effects[i] = "stateWriteFailed")
        => /\ last'.result = "PersistenceFailure"
           /\ stateFile' = stateFile
           /\ configFile' = configFile
           /\ \A i \in 1..Len(last'.effects) :
                 last'.effects[i] \in {"keygen", "stateRead", "stateWriteFailed"} ]_vars

\* a request to the running service whose state-file write failed
C11_Witness ==
    /\ last.op = "POST /api/users"
    /\ last.effects = <<"stateWriteFailed">>
    /\ last.result = "PersistenceFailure"
    /\ configFile # NoFile

\* C12: when the reload signal fails, the operation still succeeds and the state
\* file and the config file hold the new state
C12_ReloadFailureKeepsState ==
    [][ (\E i \in 1..Len(last'.effects) : last'.effects[i] = "reloadFailed")
        => /\ last'.result = "ok"
           /\ http' # NotLoaded
           /\ stateFile'.users = [k \in 1..Len(http'.users) |->
                 [http'.users[k] EXCEPT !.createdAt = DateToJSON(@),
                                        !.expiresAt = DateToJSON(@)]]
           /\ stateFile'.server = http'.server
           /\ configFile' = toSingboxConfig(http'.server, http'.users) ]_vars

\* a user added by a request whose reload signal failed
C12_Witness ==
    /\ last.op = "POST /api/users"
    /\ last.effects = <<"stateWrite", "configWrite", "reloadFailed">>
    /\ last.result = "ok"
    /\ Len(stateFile.users) = 1
    /\ Len(configFile.inbounds[1].users) = 1

\* the reads of the UserManager
ReadOps ==
    {"getUsers", "getUser", "getClientConfigs", "getPublicKey", "exportUserConfig", "getStats"}

\* C13: addUser, removeUser, setUserEnabled and the reads leave the manager's
\* ServerConfig as it was and write no other ServerConfig to the state file;
\* initialize on an existing state file takes the persisted ServerConfig as it is;
\* keys are generated by initialize without a state file only
C13_KeysStable ==
    [][ /\ (last'.op \in {"addUser", "removeUser", "setUserEnabled"} \cup ReadOps)
           => /\ mgr'.server = mgr.server
              /\ stateFile' # stateFile => stateFile'.server = mgr.server
        /\ (last'.op = "initialize" /\ stateFile # NoFile)
           => /\ stateFile' = stateFile
              /\ mgr'.server = stateFile.server
        /\ (\E i \in 1..Len(last'.effects) : last'.effects[i] = "keygen")
           => /\ last'.op = "initialize"
              /\ stateFile = NoFile ]_vars

\* two users added and one disabled, the keys of initialize still in place
C13_Witness ==
    /\ last.op = "setUserEnabled"
    /\ last.result = "ok"
    /\ Len(mgr.users) = 2
    /\ Len(mgr.server.inbounds) = 1
    /\ mgr.server.inbounds[1].reality.privateKey \in {"sk1", "sk2"}
    /\ stateFile.server = mgr.server

\* C15: removeUser and setUserEnabled, given a string that is no user's name or
\* id, return false without throwing or writing and leave the roster, the
\* descriptor cache, the state file and the config file as they were
C15_NotFoundChangesNothing ==
    [][ LET NoMatch(x) == \A i \in 1..Len(mgr.users) :
                              mgr.users[i].name # x /\ mgr.users[i].id # x
        IN  (\/ last'.op = "removeUser" /\ NoMatch(last'.arg)
             \/ last'.op = "setUserEnabled" /\ NoMatch(last'.arg[1]))
            => /\ last'.result = "notFound"
               /\ last'.effects = <<>>
               /\ mgr' = mgr
               /\ stateFile' = stateFile
               /\ configFile' = configFile ]_vars

\* a removal by the id of a user who is gone, with another user in the roster
C15_Witness ==
    /\ last.op = "removeUser"
    /\ last.result = "notFound"
    /\ last.arg \in allocated
    /\ Len(mgr.users) = 1
    /\ Len(mgr.clientConfigs) = 1

\* C17: getUsers, getUser, getClientConfigs, getStats, getPublicKey and
\* exportUserConfig write no file, send no signal and leave the manager's state
\* as it was
C17_ReadsArePure ==
    [][ last'.op \in ReadOps
        => /\ mgr' = mgr
           /\ stateFile' = stateFile
           /\ configFile' = configFile
           /\ last'.effects = <<>>
           /\ last'.result = "ok" ]_vars

\* a read that returned a descriptor of a manager whose state differs from the file
C17_Witness ==
    /\ last.op = "getClientConfigs"
    /\ Len(last.gen) = 1
    /\ stateFile # NoFile
    /\ stateFile # JSONStringify(mgr)

\* C14: a successful add, by the user:add command or by POST /api/users, appends
\* exactly the new user (enabled, no traffic used) to the end of the roster,
\* appends one descriptor per inbound, each with the new user's id, to the
\* descriptor cache, and returns that user and those descriptors
C14_AddUserAppends ==
    [][ (last'.op \in {"user:add", "POST /api/users"} /\ last'.result = "ok")
        => LET user == last'.gen.user
               configs == last'.gen.configs
               before == IF last'.op = "user:add" THEN stateFile ELSE JSONStringify(http)
               after == IF last'.op = "user:add" THEN stateFile' ELSE JSONStringify(http')
           IN  /\ user.enabled
               /\ user.trafficUsed = 0
               /\ user.name = last'.arg
               /\ after.users = Append(before.users,
                                       [user EXCEPT !.createdAt = DateToJSON(@),
                                                    !.expiresAt = DateToJSON(@)])
               /\ Len(configs) = Len(before.server.inbounds)
               /\ \A i \in 1..Len(configs) : configs[i].userId = user.id
               /\ after.clientConfigs = before.clientConfigs \o configs ]_vars

\* whether the config file lists the user with this id in some inbound
InConfigFile(cfg, id) ==
    /\ cfg # NoFile
    /\ \E i \in 1..Len(cfg.inbounds) :
          \E k \in 1..Len(cfg.inbounds[i].users) : cfg.inbounds[i].users[k].uuid = id

\* the operations that are not setUserEnabled: addUser, removeUser, the reads, and
\* initialize on an existing state file
C16_OtherOps ==
    \/ last'.op \in {"addUser", "removeUser"} \cup ReadOps
    \/ last'.op = "initialize" /\ stateFile # NoFile

C18_UnsupportedThrows ==
    (last.op = "generateVlessUri"
     /\ (last.arg[3].protocol # "vless" \/ last.arg[3].tlsType # "reality"))
    => /\ last.result = "UnsupportedProtocolCombination"
       /\ last.gen = [error |-> "Error: Only VLESS+Reality is supported"]

\* a call with a vless inbound over plain TLS that carries Reality settings was refused
C18_Witness ==
    /\ last.op = "generateVlessUri"
    /\ last.arg[3].protocol = "vless"
    /\ last.arg[3].tlsType = "tls"
    /\ last.arg[3].reality # Undefined
    /\ last.result = "UnsupportedProtocolCombination"

\* C19: in every descriptor generateClientConfig returns, the manual map holds the
\* values the URI is made of: the URI is the string its fields spell, and the
\* fields are the host, the inbound's port, the user's id, the first server name,
\* the public key, the first short id and the fixed flow, fingerprint and security
C19_ManualMirrorsUri ==
    (last.op = "generateClientConfig" /\ last.result = "ok")
    => \A i \in 1..Len(last.gen) :
          LET user == last.arg[1]
              serverConfig == last.arg[2]
              inbound == serverConfig.inbounds[i]
              m == last.gen[i].manual
          IN  /\ Len(last.gen) = Len(serverConfig.inbounds)
              /\ last.gen[i].uri
                 = "vless://" \o m.uuid \o "@" \o m.address \o ":" \o ToString(m.port)
                   \o "?type=tcp&security=" \o m.security \o "&pbk=" \o m.publicKey
                   \o "&fp=" \o m.fingerprint \o "&sni=" \o m.sni \o "&sid=" \o m.shortId
                   \o "&flow=" \o m.flow \o "#" \o encodeURIComponent(user.name)
              /\ m.address = serverConfig.host
              /\ m.port = inbound.port
              /\ m.uuid = user.id
              /\ m.sni = inbound.reality.serverNames[1]
              /\ m.publicKey = inbound.reality.publicKey
              /\ m.shortId = inbound.reality.shortIds[1]
              /\ m.flow = "xtls-rprx-vision"
              /\ m.fingerprint = "chrome"
              /\ m.security = "reality"

\* a descriptor was generated for a user whose name needs encoding, on port 8443
C19_Witness ==
    /\ last.op = "generateClientConfig"
    /\ last.result = "ok"
    /\ Len(last.gen) = 1
    /\ last.arg[1].name = "my phone"
    /\ last.gen[1].manual.port = 8443
    /\ Len(last.arg[2].inbounds[1].reality.shortIds) > 1

\* C20: what generateVlessUri returns is fixed by its three arguments: in every
\* state of the manager and after any earlier calls, the result is the one string
\* the arguments spell
C20_UriDeterministic ==
    (last.op = "generateVlessUri" /\ last.result = "ok")
    => LET user == last.arg[1]
           serverConfig == last.arg[2]
           inbound == last.arg[3]
       IN  last.gen = "vless://" \o user.id \o "@" \o serverConfig.host \o ":"
                      \o ToString(inbound.port) \o "?"
                      \o JoinParams(<< <<"type", "tcp">>, <<"security", "reality">>,
                                       <<"pbk", inbound.reality.publicKey>>,
                                       <<"fp", "chrome">>,
                                       <<"sni", inbound.reality.serverNames[1]>>,
                                       <<"sid", inbound.reality.shortIds[1]>>,
                                       <<"flow", "xtls-rprx-vision">> >>)
                      \o "#" \o encodeURIComponent(user.name)

\* a URI was generated for a host other than the one a manager with a user holds
C20_Witness ==
    /\ last.op = "generateVlessUri"
    /\ last.result = "ok"
    /\ Len(mgr.users) > 0
    /\ mgr.server.inbounds # <<>>
    /\ last.arg[2].host # mgr.server.host

\* C21: an initialize(host, port) that finds no state file and returns leaves the
\* manager with server.host = host and exactly one inbound (vless, reality,
\* listening on 0.0.0.0 on the given port, with a Reality config), and has written
\* the state file and the compiled config file
C21_InitializeFresh ==
    [][ (last'.op = "initialize" /\ stateFile = NoFile /\ last'.result = "ok")
        => /\ mgr'.server.host = last'.arg[1]
           /\ Len(mgr'.server.inbounds) = 1
           /\ mgr'.server.inbounds[1].protocol = "vless"
           /\ mgr'.server.inbounds[1].tlsType = "reality"
           /\ mgr'.server.inbounds[1].listen = "0.0.0.0"
           /\ mgr'.server.inbounds[1].port = last'.arg[2]
           /\ mgr'.server.inbounds[1].reality # Undefined
           /\ mgr'.server.inbounds[1].reality.publicKey # ""
           /\ last'.effects = <<"keygen", "stateWrite", "configWrite">>
           /\ stateFile' # NoFile
           /\ stateFile'.server = mgr'.server
           /\ configFile' # NoFile
           /\ Len(configFile'.inbounds) = 1
           /\ configFile'.inbounds[1].listen_port = last'.arg[2] ]_vars

\* initialize("198.51.100.7", 8443) has just created both files
C21_Witness ==
    /\ last.op = "initialize"
    /\ last.arg = <<"198.51.100.7", 8443>>
    /\ last.effects = <<"keygen", "stateWrite", "configWrite">>
    /\ mgr.server.inbounds[1].port = 8443
    /\ stateFile # NoFile
    /\ configFile # NoFile

\* C22: every CLI user command that fails (manager not initialized, duplicate
\* name, user not found) ends with a non-zero exit status
C22_CliFailureExitsNonZero ==
    (last.op \in {"user:add", "user:remove", "user:enable", "user:disable"}
     /\ last.result # "ok")
    => ExitStatus(last.op, last.result) # 0

\* the ids of the users in a roster
IdsOf(users) == {users[i].id : i \in 1..Len(users)}

\* C23: the config file never reflects a roster mutation the state file does not
\* contain. A user the service holds in memory (so never deleted) and the config
\* file lists is in the state file's roster.
C23_StateNeverBehindConfig ==
    (http # NotLoaded /\ configFile # NoFile)
    => \A id \in IdsOf(http.users) :
          InConfigFile(configFile, id)
          => stateFile # NoFile /\ id \in IdsOf(stateFile.users)

\* C24: whenever no request is in flight and no write has failed, the state file
\* is the service's in-memory state and the config file is its compile
C24_FilesMatchMemoryAtRest ==
    (http # NotLoaded /\ reqs = {} /\ faults = 0)
    => /\ stateFile = JSONStringify(http)
       /\ configFile = toSingboxConfig(http.server, http.users)

\* C25: a start that finds the state file (main() of the service, initialize of the
\* CLI's manager) leaves the config file equal to the compile of the persisted
\* state, whatever an interrupted operation had left in it
C25_StartRecompiles ==
    [][ (last'.op \in {"main", "init"} /\ stateFile # NoFile /\ last'.result = "ok")
        => configFile' = toSingboxConfig(stateFile'.server, stateFile'.users) ]_vars

\* C26: the CLI and the service share the state file and the service never reads
\* it again. A user the file holds and the service's memory does not (added by a
\* CLI command that reported success) is gone from the file after the service's
\* next successful POST /api/users.
C26_ServiceClobbersCliWrite ==
    [][ (last'.op = "POST /api/users" /\ last'.result = "ok" /\ stateFile # NoFile
         /\ http # NotLoaded)
        => \A id \in IdsOf(stateFile.users) \ IdsOf(http.users) :
              id \notin IdsOf(stateFile'.users) ]_vars

\* user:add has just reported success for a user the running service does not hold
C26_Witness ==
    /\ last.op = "user:add"
    /\ last.result = "ok"
    /\ http # NotLoaded
    /\ last.gen.user.id \in IdsOf(stateFile.users)
    /\ last.gen.user.id \notin IdsOf(http.users)
    /\ draws < MaxRand

\* C27: removeUser and setUserEnabled act on exactly one user, the first in roster
\* order whose name or id is nameOrId, also when a later user matches too;
\* removeUser keeps the other users in their order
C27_FirstMatchOnly ==
    [][ (last'.op \in {"removeUser", "setUserEnabled"} /\ last'.result = "ok")
        => LET x == IF last'.op = "removeUser" THEN last'.arg ELSE last'.arg[1]
               Hit(k) == mgr.users[k].name = x \/ mgr.users[k].id = x
               first == CHOOSE k \in 1..Len(mgr.users) :
                           Hit(k) /\ \A j \in 1..(k - 1) : ~Hit(j)
           IN  /\ \E k \in 1..Len(mgr.users) : Hit(k)
               /\ IF last'.op = "removeUser"
                  THEN /\ Len(mgr'.users) = Len(mgr.users) - 1
                       /\ \A k \in 1..Len(mgr'.users) :
                             mgr'.users[k] = mgr.users[IF k < first THEN k ELSE k + 1]
                  ELSE /\ Len(mgr'.users) = Len(mgr.users)
                       /\ \A k \in 1..Len(mgr.users) :
                             mgr'.users[k] =
                                IF k = first
                                THEN [mgr.users[k] EXCEPT !.enabled = last'.arg[2]]
                                ELSE mgr.users[k] ]_vars

\* setUserEnabled was called with a string that is the id of the first user and the
\* name of the second, and only the first user has the new flag
C27_Witness ==
    /\ last.op = "setUserEnabled"
    /\ last.result = "ok"
    /\ Len(mgr.users) = 2
    /\ mgr.users[1].id = last.arg[1]
    /\ mgr.users[2].name = last.arg[1]
    /\ mgr.users[1].enabled = last.arg[2]
    /\ mgr.users[2].enabled # last.arg[2]

\* C30: every user in the roster has a non-empty name
C30_NamesNonEmpty ==
    \A users \in Rosters : \A i \in 1..Len(users) : users[i].name # ""

\* C28: a successful setUserEnabled changes nothing but the enabled flag of the
\* matched user: the roster keeps its length and order, every user keeps its
\* other fields, the descriptor cache and the server config stay; and when the
\* matched user already has the value, the state is left as it was
C28_SetUserEnabledFrame ==
    [][ (last'.op = "setUserEnabled" /\ last'.result = "ok")
        => LET x == last'.arg[1]
               Hit(k) == mgr.users[k].name = x \/ mgr.users[k].id = x
               Flipped == {k \in 1..Len(mgr.users) :
                              mgr'.users[k].enabled # mgr.users[k].enabled}
           IN  /\ mgr'.server = mgr.server
               /\ mgr'.clientConfigs = mgr.clientConfigs
               /\ mgr'.version = mgr.version
               /\ Len(mgr'.users) = Len(mgr.users)
               /\ \A k \in 1..Len(mgr.users) :
                     [mgr'.users[k] EXCEPT !.enabled = mgr.users[k].enabled] = mgr.users[k]
               /\ Cardinality(Flipped) <= 1
               /\ \A k \in Flipped : Hit(k) /\ mgr'.users[k].enabled = last'.arg[2]
               /\ (\A k \in 1..Len(mgr.users) : Hit(k) => mgr.users[k].enabled = last'.arg[2])
                  => mgr' = mgr ]_vars

\* one of two users was disabled, with a descriptor cached for each
C28_Witness ==
    /\ last.op = "setUserEnabled"
    /\ last.result = "ok"
    /\ last.arg[2] = FALSE
    /\ Len(mgr.users) = 2
    /\ Len(mgr.clientConfigs) = 2
    /\ mgr.users[1].enabled # mgr.users[2].enabled

\* C29: from its creation to its removal a user keeps its id, name, createdAt and
\* trafficUsed. A user found with one id before and after a step has the three
\* other fields unchanged; addUser, setUserEnabled and the reads keep the id at
\* every position; removeUser leaves only ids that were there; a load takes the
\* four fields from the state file as they were written, and the state file holds
\* them as the manager has them.
C29_IdentityFieldsImmutable ==
    [][ /\ \A i \in 1..Len(mgr.users), j \in 1..Len(mgr'.users) :
              mgr.users[i].id = mgr'.users[j].id
              => /\ mgr'.users[j].name = mgr.users[i].name
                 /\ mgr'.users[j].createdAt = mgr.users[i].createdAt
                 /\ mgr'.users[j].trafficUsed = mgr.users[i].trafficUsed
        /\ last'.op \in {"addUser", "setUserEnabled"}
              => \A k \in 1..Len(mgr.users) : mgr'.users[k].id = mgr.users[k].id
        /\ last'.op = "removeUser" => IdsOf(mgr'.users) \subseteq IdsOf(mgr.users)
        /\ (last'.op \in {"loadState", "initialize"} /\ last'.effects = <<"stateRead">>)
              => /\ Len(mgr'.users) = Len(stateFile.users)
                 /\ \A k \in 1..Len(mgr'.users) :
                       /\ mgr'.users[k].id = stateFile.users[k].id
                       /\ mgr'.users[k].name = stateFile.users[k].name
                       /\ mgr'.users[k].trafficUsed = stateFile.users[k].trafficUsed
                       /\ mgr'.users[k].createdAt = DateOf(stateFile.users[k].createdAt.iso)
        /\ stateFile' # NoFile
              => \A i \in 1..Len(mgr'.users), j \in 1..Len(stateFile'.users) :
                    mgr'.users[i].id = stateFile'.users[j].id
                    => /\ stateFile'.users[j].name = mgr'.users[i].name
                       /\ stateFile'.users[j].trafficUsed = mgr'.users[i].trafficUsed
                       /\ stateFile'.users[j].createdAt = IsoOf(mgr'.users[i].createdAt.date)
      ]_vars

\* the state was loaded later than its two users were created, at different times
C29_Witness ==
    /\ last.op = "loadState"
    /\ last.result = "ok"
    /\ Len(mgr.users) = 2
    /\ mgr.users[1].createdAt.date < mgr.users[2].createdAt.date
    /\ mgr.users[2].createdAt.date < now
    /\ ~mgr.users[1].enabled


\* the processes that are alive and were not sent the kill signal
Supervised == sup.alive \ sup.killed

\* C31: in the HTTP service at most one supervised proxy process is alive at any
\* time, and singboxProcess refers to it whenever it is alive
C31_OneProcessHeld ==
    /\ Cardinality(Supervised) <= 1
    /\ \A p \in Supervised : sup.singboxProcess = p

\* C32: after every reset that was answered, if the binary can be found, a proxy
\* process spawned after that reset's config was written is eventually running
C32_ResetRestartsProxy ==
    \A n \in 1..MaxResets :
        (sup.binary /\ n \in sup.done) ~> (\E p \in Supervised : n \in sup.born[p])

\* two resets were answered, the second while the first one's timer was armed
C32_Witness ==
    /\ sup.binary
    /\ sup.done = 1..MaxResets
    /\ sup.timers = 0
    /\ \E p \in Supervised : sup.born[p] = 1..MaxResets

\* the states the program holds: the UserManager's, the service's, the state file's
States ==
    {JSONStringify(mgr)}
    \cup (IF http = NotLoaded THEN {} ELSE {JSONStringify(http)})
    \cup (IF stateFile = NoFile THEN {} ELSE {stateFile})

\* C33: every descriptor in the descriptor cache has the id of a user of the
\* roster as its userId, whichever surface the operations went through
C33_NoOrphanDescriptors ==
    \A st \in States :
        \A i \in 1..Len(st.clientConfigs) : st.clientConfigs[i].userId \in IdsOf(st.users)

\* C34: every user of the roster has exactly one cached descriptor per server
\* inbound, and at least one, whichever surface created the user
C34_EveryUserHasDescriptors ==
    \A st \in States :
        \A i \in 1..Len(st.users) :
            LET Mine(c) == c.userId = st.users[i].id
                n == Len(SelectSeq(st.clientConfigs, Mine))
            IN  n = Len(st.server.inbounds) /\ n > 0

\* C35: when addUser throws while generating the descriptors, because the server
\* has an inbound that is not vless+reality, the roster and the descriptor cache
\* are as they were before the call
C35_FailedAddLeavesRoster ==
    [][ (last'.op = "addUser" /\ last'.result = "UnsupportedProtocolCombination")
        => /\ mgr'.users = mgr.users
           /\ mgr'.clientConfigs = mgr.clientConfigs ]_vars

\* C36: whenever initialize has completed, whatever was called before it on a
\* manager of the same state path, the server has a non-empty host and a
\* vless+reality inbound whose private key, public key, serverNames and shortIds
\* are not empty
C36_InitializedServerUsable ==
    (last.op = "initialize" /\ last.result = "ok")
    => /\ mgr.server.host # ""
       /\ \E i \in 1..Len(mgr.server.inbounds) :
             LET inbound == mgr.server.inbounds[i]
             IN  /\ inbound.protocol = "vless"
                 /\ inbound.tlsType = "reality"
                 /\ inbound.reality # Undefined
                 /\ inbound.reality.privateKey # ""
                 /\ inbound.reality.publicKey # ""
                 /\ inbound.reality.serverNames # <<>>
                 /\ inbound.reality.shortIds # <<>>

\* C37: on every path of key generation, the fallback without the binary
\* included, the public key returned is the one derived from the private key
\* returned
C37_PublicKeyDerived ==
    (last.op = "initialize" /\ last.gen # Undefined)
    => last.gen.keys.publicKey = DerivePublic(last.gen.keys.privateKey)
====
